---- MODULE Spec2Model ----
(***************************************************************************)
(* Model of src/src/buff.ts: the byte buffer Buff (a Uint8Array subclass)  *)
(* with its varint codec, and the sequential reader Stream.                *)
(*                                                                         *)
(* Representation.                                                         *)
(*  - A byte sequence is a TLA+ sequence over 0..255.                      *)
(*  - A JavaScript number holding a non-negative integer is its base-256   *)
(*    digit sequence, least significant digit first, without high zero     *)
(*    digits (0 is << >>).  The thresholds 2^32 and 2^64 of varInt are      *)
(*    therefore exact.  Array lengths and offsets are TLA+ naturals.       *)
(*  - Objects live in heap cells; a reference is a cell number, 0 is no    *)
(*    object.  Two references alias iff they are the same cell.            *)
(*  - fmt and util are imported     by buff.ts from files that are not     *)
(*    part of src/; they are modelled from the specification.  The side on *)
(*    which util.pad_array adds its zero bytes is left open there, so it   *)
(*    is a parameter of the model (padSide), fixed in the initial state.   *)
(***************************************************************************)
EXTENDS Integers, Sequences, FiniteSets, TLC

VARIABLES
    padSide,   \* where util.pad_array puts the zero bytes: "start" or "end"
    heap,      \* cell -> bytes of the object in it (Free for none)
    buf,       \* the caller's Buff (a cell)
    st,        \* the Stream: [data |-> cell, size |-> number of bytes]
    chunk,     \* the Buff the last successful peek/read returned (a cell, 0 for none)
    last,      \* the last call: operation, arguments, outcome, state before it
    part,      \* bookkeeping of the read(size) calls since the Stream was made
    input,     \* what buf was made from by varInt / prefixSize
    nwrites    \* number of write calls so far

vars == <<padSide, heap, buf, st, chunk, last, part, input, nwrites>>

------------------------------------------------------------------------------
(* Bounds of the model. *)

\* longest source buffer drawn from ByteVals
MaxLen == 3
\* most base-256 digits of a number handed to varInt
MaxNumLen == 9
\* write calls in one behaviour
MaxWrites == 2
\* heap cells
MaxCells == 9
\* largest offset handed to write
MaxOffset == 3
\* bytes beyond 0xFD - 1 in the longest buffer handed to prefixSize
LongSpan == 3

(* Program constants. *)
Radix == 256
MarkerFD == 253
MarkerFE == 254
MarkerFF == 255

Byte == 0 .. (Radix - 1)
Cells == 1 .. MaxCells
Free == <<0 - 1>>
NoSize == 0 - 1
NoOffset == 0 - 1
Undefined == <<0 - 1>>
NoEndian == "none"
EndianOpt == {"be", "le", NoEndian}
PadSides == {"start", "end"}

------------------------------------------------------------------------------
(* Sequences and numbers. *)

Min(a, b) == IF a < b THEN a ELSE b

Reverse(s) == [i \in 1 .. Len(s) |-> s[Len(s) + 1 - i]]

Zeros(k) == [i \in 1 .. k |-> 0]

\* Uint8Array.prototype.slice(start, end) for 0 <= start, 0 <= end
slice(s, start, end) == SubSeq(s, start + 1, Min(end, Len(s)))

RECURSIVE Norm(_)
Norm(d) ==
    IF d = << >> THEN << >>
    ELSE IF d[Len(d)] = 0 THEN Norm(SubSeq(d, 1, Len(d) - 1))
    ELSE d

\* a < b on numbers
NumLt(a, b) ==
    IF Len(a) # Len(b) THEN Len(a) < Len(b)
    ELSE \E i \in 1 .. Len(a) :
            /\ a[i] < b[i]
            /\ \A j \in (i + 1) .. Len(a) : a[j] = b[j]

\* the number with value k, k a TLA+ natural
RECURSIVE Number(_)
Number(k) == IF k = 0 THEN << >> ELSE <<k % Radix>> \o Number(k \div Radix)

\* the TLA+ natural with the value of a (small) number
RECURSIVE IntOf(_)
IntOf(n) == IF n = << >> THEN 0 ELSE Head(n) + Radix * IntOf(Tail(n))

\* Radix^k as a number
Pow(k) == Zeros(k) \o <<1>>

------------------------------------------------------------------------------
(* The collaborators buff.ts imports from fmt and util. *)

\* fmt.buffer: coerce a byte-like source into a concrete byte sequence
buffer(data) == data

\* util.pad_array: resize to exactly size bytes
pad_array(bytes, size) ==
    IF Len(bytes) >= size
    THEN IF padSide = "end"
         THEN SubSeq(bytes, 1, size)
         ELSE SubSeq(bytes, Len(bytes) - size + 1, Len(bytes))
    ELSE IF padSide = "end"
         THEN bytes \o Zeros(size - Len(bytes))
         ELSE Zeros(size - Len(bytes)) \o bytes

\* util.join_array: concatenate in order
RECURSIVE join_array(_)
join_array(arr) ==
    IF arr = << >> THEN << >> ELSE Head(arr) \o join_array(Tail(arr))

\* fmt.numToBytes: the natural (little-endian, shortest) bytes of a number
RECURSIVE numToBytes(_)
numToBytes(num) ==
    IF num = << >> THEN << >>
    ELSE <<Head(num)>> \o numToBytes(Tail(num))

\* fmt.bytesToNum: the number whose little-endian bytes are given
bytesToNum(bytes) == Norm(bytes)

------------------------------------------------------------------------------
(* Buff: the operations that build a value.  Each returns the bytes of a    *)
(* new object.                                                             *)

Ok(bytes) == [ok |-> TRUE, err |-> "", bytes |-> bytes]
Err(e) == [ok |-> FALSE, err |-> e, bytes |-> << >>]

\* an omitted endian argument takes the default of the parameter
Dflt(endian) == IF endian = NoEndian THEN "be" ELSE endian

\* constructor (data, size?)
Buff(data, size) ==
    LET bytes == buffer(data)
    IN  IF size # NoSize THEN pad_array(bytes, size) ELSE bytes

\* Buff.bytes
bytesToBuff(data, size) == Buff(data, size)

\* Buff.num
numToBuff(number, size, endian) ==
    LET n == numToBytes(number)
    IN  Buff(IF Dflt(endian) = "be" THEN Reverse(n) ELSE n, size)

\* toNum(endian)
toNum(bytes, endian) ==
    bytesToNum(IF Dflt(endian) = "be" THEN Buff(Reverse(bytes), NoSize) ELSE bytes)

\* Buff.of
of(args) == Buff(args, NoSize)

\* Buff.join
join(arr) ==
    Buff(join_array([i \in 1 .. Len(arr) |-> bytesToBuff(arr[i], NoSize)]), NoSize)

\* Buff.varInt
varInt(num, endian) ==
    IF NumLt(num, <<MarkerFD>>)
    THEN Ok(numToBuff(num, 1, NoEndian))
    ELSE IF NumLt(num, Pow(2))
    THEN Ok(of(<<MarkerFD>> \o numToBuff(num, 2, endian)))
    ELSE IF NumLt(num, Pow(4))
    THEN Ok(of(<<MarkerFE>> \o numToBuff(num, 4, endian)))
    ELSE IF NumLt(num, Pow(8))
    THEN Ok(of(<<MarkerFF>> \o numToBuff(num, 8, endian)))
    ELSE Err("ValueTooLarge")

\* prefixSize(endian?)
prefixSize(bytes, endian) ==
    LET size == varInt(Number(Len(bytes)), endian)
    IN  IF size.ok THEN Ok(join(<<size.bytes, bytes>>)) ELSE size

------------------------------------------------------------------------------
(* Objects.  A constructor call makes a new object: a cell no reference     *)
(* points to.                                                              *)

\* F applied to the value v, v named once
Bind(v, F(_)) == F(v)

\* super(bytes): a new typed array holding a copy of bytes
New(h, bytes) ==
    LET c == CHOOSE k \in Cells :
                 /\ h[k] = Free
                 /\ \A j \in Cells : j < k => h[j] # Free
    IN  [heap |-> [h EXCEPT ![c] = bytes], ref |-> c]

\* the outcome of a Stream method: the heap and the Stream after it, whether it
\* returned or threw, the Buff returned (out) or the number returned (num)
R(h, s, ok, err, out, num) ==
    [heap |-> h, st |-> s, ok |-> ok, err |-> err, out |-> out, num |-> num]

\* Faulty variant of Stream: data is the source object itself, not a copy
Stream_alias(h, src) ==
    [heap |-> h, st |-> [data |-> src, size |-> Len(h[src])]]

\* new Stream(data)
Stream(h, src) ==
    Bind(New(h, bytesToBuff(h[src], NoSize)), LAMBDA a :
        [heap |-> a.heap,
         st   |-> [data |-> a.ref, size |-> Len(a.heap[a.ref])]])

\* get stream
stream(h, b) == Stream(h, b)

\* Faulty variant of peek: the bound is size >= this.size
peek_offByOne(h, s, size) ==
    IF ~NumLt(size, Number(s.size))
    THEN R(h, s, FALSE, "SizeExceeded", 0, << >>)
    ELSE Bind(New(h, Buff(slice(h[s.data], 0, IntOf(size)), NoSize)), LAMBDA a :
             R(a.heap, s, TRUE, "", a.ref, << >>))

\* Faulty variant of peek: the bytes returned are taken off the Stream
peek_consuming(h, s, size) ==
    IF NumLt(Number(s.size), size)
    THEN R(h, s, FALSE, "SizeExceeded", 0, << >>)
    ELSE Bind(New(h, Buff(slice(h[s.data], 0, IntOf(size)), NoSize)), LAMBDA a :
             R([a.heap EXCEPT ![s.data] = slice(@, IntOf(size), Len(@))],
               [s EXCEPT !.size = @ - IntOf(size)], TRUE, "", a.ref, << >>))

\* Stream.peek(size)
peek(h, s, size) ==
    IF NumLt(Number(s.size), size)
    THEN R(h, s, FALSE, "SizeExceeded", 0, << >>)
    ELSE Bind(New(h, Buff(slice(h[s.data], 0, IntOf(size)), NoSize)), LAMBDA a :
             R(a.heap, s, TRUE, "", a.ref, << >>))

\* Faulty variant of consume: the Stream restarts one byte late
consume_skip(h, s, size) ==
    Bind(peek(h, s, size), LAMBDA chunk_ :
        IF ~chunk_.ok THEN chunk_
        ELSE Bind(New(chunk_.heap,
                      Buff(slice(chunk_.heap[s.data], IntOf(size) + 1,
                                 Len(chunk_.heap[s.data])), NoSize)),
                  LAMBDA d :
                      R(d.heap,
                        [data |-> d.ref, size |-> Len(d.heap[d.ref])],
                        TRUE, "", chunk_.out, << >>)))

\* Faulty variant of consume: size is not set after data
consume_staleSize(h, s, size) ==
    Bind(peek(h, s, size), LAMBDA chunk_ :
        IF ~chunk_.ok THEN chunk_
        ELSE Bind(New(chunk_.heap,
                      Buff(slice(chunk_.heap[s.data], IntOf(size),
                                 Len(chunk_.heap[s.data])), NoSize)),
                  LAMBDA d :
                      R(d.heap,
                        [data |-> d.ref, size |-> s.size],
                        TRUE, "", chunk_.out, << >>)))

\* Stream.read, from the peek on: the size is known
consume(h, s, size) ==
    Bind(peek(h, s, size), LAMBDA chunk_ :
        IF ~chunk_.ok THEN chunk_
        ELSE Bind(New(chunk_.heap,
                      Buff(slice(chunk_.heap[s.data], IntOf(size),
                                 Len(chunk_.heap[s.data])), NoSize)),
                  LAMBDA d :
                      R(d.heap,
                        [data |-> d.ref, size |-> Len(d.heap[d.ref])],
                        TRUE, "", chunk_.out, << >>)))

\* Faulty variant of readSize: a failure after the marker puts the marker back
readSize_restoring(h, s, endian) ==
    Bind(consume(h, s, Number(1)), LAMBDA r1 :
        IF ~r1.ok THEN r1
        ELSE Bind(toNum(r1.heap[r1.out], NoEndian), LAMBDA num :
            IF NumLt(num, <<MarkerFD>>)
            THEN R(r1.heap, r1.st, TRUE, "", 0, num)
            ELSE Bind(consume(r1.heap, r1.st,
                              IF num = <<MarkerFD>> THEN Number(2)
                              ELSE IF num = <<MarkerFE>> THEN Number(4)
                              ELSE Number(8)),
                      LAMBDA r2 :
                          IF ~r2.ok THEN R(h, s, FALSE, r2.err, 0, << >>)
                          ELSE R(r2.heap, r2.st, TRUE, "", 0,
                                 toNum(r2.heap[r2.out], endian)))))

\* Stream.readSize(endian?); its read(1), read(2), ... give the size
readSize(h, s, endian) ==
    Bind(consume(h, s, Number(1)), LAMBDA r1 :
        IF ~r1.ok THEN r1
        ELSE Bind(toNum(r1.heap[r1.out], NoEndian), LAMBDA num :
            IF NumLt(num, <<MarkerFD>>)
            THEN R(r1.heap, r1.st, TRUE, "", 0, num)
            ELSE IF num \notin {<<MarkerFD>>, <<MarkerFE>>, <<MarkerFF>>}
            THEN R(r1.heap, r1.st, FALSE, "InvalidPrefix", 0, << >>)
            ELSE Bind(consume(r1.heap, r1.st,
                              IF num = <<MarkerFD>> THEN Number(2)
                              ELSE IF num = <<MarkerFE>> THEN Number(4)
                              ELSE Number(8)),
                      LAMBDA r2 :
                          IF ~r2.ok THEN r2
                          ELSE R(r2.heap, r2.st, TRUE, "", 0,
                                 toNum(r2.heap[r2.out], endian)))))

\* Stream.read(size?)
read(h, s, size) ==
    IF size = Undefined
    THEN Bind(readSize(h, s, NoEndian), LAMBDA rs :
             IF ~rs.ok THEN rs ELSE consume(rs.heap, rs.st, rs.num))
    ELSE consume(h, s, size)

\* Faulty variant of write: bytes past the end are dropped instead of refused
write_clamped(h, target, bytes, offset) ==
    LET b   == bytesToBuff(bytes, NoSize)
        off == IF offset = NoOffset THEN 0 ELSE offset
        old == h[target]
    IN  [heap |-> [h EXCEPT ![target] =
                      [i \in 1 .. Len(old) |->
                          IF i > off /\ i <= off + Len(b)
                          THEN b[i - off] ELSE old[i]]],
         ok |-> TRUE, err |-> ""]

\* write(bytes, offset?): Uint8Array.prototype.set on the receiver
write(h, target, bytes, offset) ==
    LET b   == bytesToBuff(bytes, NoSize)
        off == IF offset = NoOffset THEN 0 ELSE offset
        old == h[target]
    IN  IF off + Len(b) > Len(old)
        THEN [heap |-> h, ok |-> FALSE, err |-> "OffsetOverflow"]
        ELSE [heap |-> [h EXCEPT ![target] =
                          [i \in 1 .. Len(old) |->
                              IF i > off /\ i <= off + Len(b)
                              THEN b[i - off] ELSE old[i]]],
              ok |-> TRUE, err |-> ""]

\* The objects the caller still holds, renumbered: buf in cell 1, the Stream's
\* data next, the chunk last; everything else is garbage.
Canon(h, b, s, c) ==
    LET db == IF s.data = b THEN 1 ELSE 2
        cc == IF c = 0 THEN 0
              ELSE IF c = b THEN 1
              ELSE IF c = s.data THEN db
              ELSE 3
        nh == [k \in Cells |->
                  IF k = 1 THEN h[b]
                  ELSE IF k = db THEN h[s.data]
                  ELSE IF k = cc THEN h[c]
                  ELSE Free]
    IN  [heap |-> nh, buf |-> 1, st |-> [s EXCEPT !.data = db], chunk |-> cc]

------------------------------------------------------------------------------
(* The calls a program makes, as actions. *)

\* inputs
ByteVals == {2, MarkerFD}
SmallBufs == UNION {[1 .. n -> ByteVals] : n \in 0 .. MaxLen}
MarkerBufs ==
    {<<0>>, <<0, 2>>, <<1, 0, 2>>, <<MarkerFD, 0, 1, 2>>, <<MarkerFD, 0>>,
     <<MarkerFE, 0, 0>>, <<MarkerFE, 0, 0, 0, 1, 2>>, <<MarkerFF, 2>>}
InitBufs == SmallBufs \cup MarkerBufs
Sizes == 0 .. (MaxLen + 1)
WriteBufs == {<<2>>, <<1, MarkerFD, 2>>}
WriteSrcs == {<< >>, <<7, 8>>}
Offsets == {NoOffset} \cup (1 .. MaxOffset)
LongBufs ==
    {[i \in 1 .. n |-> i % Radix] : n \in (MarkerFD - 1) .. (MarkerFD - 1 + LongSpan)}
WireBufs == SmallBufs \cup LongBufs
LowDigits == {0, 1, MarkerFD - 1, MarkerFD, MarkerFF}
Grid(high) ==
    UNION {{<<lo>> \o hi : lo \in LowDigits, hi \in [1 .. n -> high]} :
              n \in 0 .. (MaxNumLen - 1)}
Nums == {Norm(d) : d \in Grid({0, 1}) \cup Grid({0, MarkerFF})}

NoPart == [active |-> FALSE, orig |-> << >>, got |-> << >>, sum |-> 0, failed |-> FALSE]
NoInput == [kind |-> "none", n |-> << >>, e |-> NoEndian, bytes |-> << >>]

\* the record of a call, with the bytes of the objects before it
Call(op, arg, e, src, off, ok, err, num) ==
    [op |-> op, arg |-> arg, e |-> e, src |-> src, off |-> off,
     ok |-> ok, err |-> err, num |-> num,
     pre |-> heap[st.data], preSize |-> st.size, preBuf |-> heap[buf]]

Settle(h, b, s, c) ==
    LET n == Canon(h, b, s, c)
    IN  /\ heap' = n.heap
        /\ buf' = n.buf
        /\ st' = n.st
        /\ chunk' = n.chunk

\* const s = buf.stream
GetStream ==
    LET r == stream(heap, buf)
    IN  /\ Settle(r.heap, buf, r.st, chunk)
        /\ last' = Call("stream", Undefined, NoEndian, << >>, NoOffset, TRUE, "", << >>)
        /\ part' = [active |-> TRUE, orig |-> r.heap[r.st.data], got |-> << >>,
                    sum |-> 0, failed |-> FALSE]
        /\ UNCHANGED <<padSide, input, nwrites>>

\* s.peek(size)
Peek(size) ==
    LET r == peek(heap, st, Number(size))
    IN  /\ Settle(r.heap, buf, r.st, IF r.ok THEN r.out ELSE chunk)
        /\ last' = Call("peek", Number(size), NoEndian, << >>, NoOffset, r.ok, r.err, << >>)
        /\ part' = NoPart
        /\ UNCHANGED <<padSide, input, nwrites>>

\* s.read(size)
Read(size) ==
    LET r == read(heap, st, Number(size))
    IN  /\ Settle(r.heap, buf, r.st, IF r.ok THEN r.out ELSE chunk)
        /\ last' = Call("read", Number(size), NoEndian, << >>, NoOffset, r.ok, r.err, << >>)
        /\ part' = IF part.active /\ part.sum + size <= Len(part.orig)
                   THEN [part EXCEPT !.sum = @ + size,
                                     !.got = @ \o (IF r.ok THEN r.heap[r.out] ELSE << >>),
                                     !.failed = @ \/ ~r.ok]
                   ELSE NoPart
        /\ UNCHANGED <<padSide, input, nwrites>>

\* s.read()
ReadPrefixed ==
    LET r == read(heap, st, Undefined)
    IN  /\ Settle(r.heap, buf, r.st, IF r.ok THEN r.out ELSE chunk)
        /\ last' = Call("read", Undefined, NoEndian, << >>, NoOffset, r.ok, r.err, << >>)
        /\ part' = NoPart
        /\ UNCHANGED <<padSide, input, nwrites>>

\* s.readSize(endian)
ReadSize(e) ==
    LET r == readSize(heap, st, e)
    IN  /\ Settle(r.heap, buf, r.st, chunk)
        /\ last' = Call("readSize", Undefined, e, << >>, NoOffset, r.ok, r.err, r.num)
        /\ part' = NoPart
        /\ UNCHANGED <<padSide, input, nwrites>>

\* buf.write(src, off)
Write(src, off) ==
    /\ nwrites < MaxWrites
    /\ LET r == write(heap, buf, src, off)
       IN  /\ Settle(r.heap, buf, st, chunk)
           /\ last' = Call("write", Undefined, NoEndian, src, off, r.ok, r.err, << >>)
    /\ nwrites' = nwrites + 1
    /\ part' = NoPart
    /\ UNCHANGED <<padSide, input>>

\* chunk.write(src, off), chunk the Buff a peek or read returned
WriteChunk(src, off) ==
    /\ nwrites < MaxWrites
    /\ chunk # 0
    /\ LET r == write(heap, chunk, src, off)
       IN  /\ Settle(r.heap, buf, st, chunk)
           /\ last' = Call("writeChunk", Undefined, NoEndian, src, off, r.ok, r.err, << >>)
    /\ nwrites' = nwrites + 1
    /\ part' = NoPart
    /\ UNCHANGED <<padSide, input>>

\* a Buff from bytes and a Stream over it
Start(b) ==
    LET h0 == [k \in Cells |-> IF k = 1 THEN Buff(b, NoSize) ELSE Free]
        r  == stream(h0, 1)
        n  == Canon(r.heap, 1, r.st, 0)
    IN  /\ heap = n.heap
        /\ buf = n.buf
        /\ st = n.st
        /\ chunk = n.chunk
        /\ last = [op |-> "stream", arg |-> Undefined, e |-> NoEndian, src |-> << >>,
                   off |-> NoOffset, ok |-> TRUE, err |-> "", num |-> << >>,
                   pre |-> b, preSize |-> Len(b), preBuf |-> b]
        /\ part = [active |-> TRUE, orig |-> b, got |-> << >>, sum |-> 0, failed |-> FALSE]
        /\ input = NoInput
        /\ nwrites = 0

Init ==
    /\ padSide \in PadSides
    /\ \E b \in InitBufs : Start(b)

Next ==
    \/ GetStream
    \/ \E size \in Sizes : Peek(size)
    \/ \E size \in Sizes : Read(size)
    \/ ReadPrefixed
    \/ \E e \in EndianOpt : ReadSize(e)

\* a program that reads
Spec == Init /\ [][Next]_vars

InitWrite ==
    /\ padSide \in PadSides
    /\ \E b \in WriteBufs : Start(b)

NextWrite ==
    \/ GetStream
    \/ \E size \in Sizes : Peek(size)
    \/ \E size \in Sizes : Read(size)
    \/ ReadPrefixed
    \/ \E e \in EndianOpt : ReadSize(e)
    \/ \E src \in WriteSrcs, off \in Offsets : Write(src, off)
    \/ \E src \in WriteSrcs, off \in Offsets : WriteChunk(src, off)

\* a program that reads and writes in place
SpecWrite == InitWrite /\ [][NextWrite]_vars

\* buf = Buff.varInt(n, e)
EncodeVarInt(n, e) ==
    /\ LET r == varInt(n, e)
           a == New(heap, r.bytes)
       IN  /\ IF r.ok THEN Settle(a.heap, a.ref, st, chunk)
                      ELSE UNCHANGED <<heap, buf, st, chunk>>
           /\ last' = Call("varInt", n, e, << >>, NoOffset, r.ok, r.err, << >>)
    /\ input' = [kind |-> "varInt", n |-> n, e |-> e, bytes |-> << >>]
    /\ part' = NoPart
    /\ UNCHANGED <<padSide, nwrites>>

\* buf = buf.prefixSize(e)
EncodePrefix(e) ==
    /\ LET r == prefixSize(heap[buf], e)
           a == New(heap, r.bytes)
       IN  /\ IF r.ok THEN Settle(a.heap, a.ref, st, chunk)
                      ELSE UNCHANGED <<heap, buf, st, chunk>>
           /\ last' = Call("prefixSize", Undefined, e, << >>, NoOffset, r.ok, r.err, << >>)
    /\ input' = [kind |-> "prefix", n |-> Number(Len(heap[buf])), e |-> e,
                 bytes |-> heap[buf]]
    /\ part' = NoPart
    /\ UNCHANGED <<padSide, nwrites>>

\* a Stream over the encoded bytes
Open ==
    /\ last.op \in {"varInt", "prefixSize"}
    /\ last.ok
    /\ GetStream

\* decode what varInt encoded, with the same endianness
Decode ==
    /\ last.op = "stream"
    /\ input.kind = "varInt"
    /\ ReadSize(input.e)

\* read what prefixSize encoded
DecodePrefixed ==
    /\ last.op = "stream"
    /\ input.kind = "prefix"
    /\ ReadPrefixed

\* Buff.varInt of a number, once
Encode ==
    /\ input.kind = "none"
    /\ \E n \in Nums, e \in EndianOpt : EncodeVarInt(n, e)

\* prefixSize of the buffer, once
Prefix ==
    /\ input.kind = "none"
    /\ \E e \in EndianOpt : EncodePrefix(e)

InitVarInt ==
    /\ padSide \in PadSides
    /\ Start(<< >>)

NextVarInt ==
    \/ Encode
    \/ Open
    \/ Decode

\* encode a number, then decode it from a Stream over exactly the encoded bytes
SpecVarInt == InitVarInt /\ [][NextVarInt]_vars

InitPrefix ==
    /\ padSide \in PadSides
    /\ \E b \in WireBufs : Start(b)

NextPrefix ==
    \/ Prefix
    \/ Open
    \/ DecodePrefixed

\* prefix a buffer with its size, then read it from a Stream over the result
SpecPrefix == InitPrefix /\ [][NextPrefix]_vars

------------------------------------------------------------------------------
(* The claims. *)

\* the w-byte integer with value n in endianness e, as the wire format states it
FixedWidth(n, w, e) ==
    LET le == n \o Zeros(w - Len(n))
    IN  IF Dflt(e) = "be" THEN Reverse(le) ELSE le

\* bytes a varint prefix takes, by its first byte
PrefixLen(first) ==
    IF first < MarkerFD THEN 1
    ELSE IF first = MarkerFD THEN 3
    ELSE IF first = MarkerFE THEN 5
    ELSE 9

Explicit == last.arg # Undefined

\* C1: varint round trip.  For every n < 2^64 and each endianness e in {be, le},
\* readSize(e) on a Stream over exactly the bytes of Buff.varInt(n, e) returns n
\* and leaves remaining length 0.
C1_VarIntRoundTrip ==
    (last.op = "readSize" /\ input.kind = "varInt" /\ input.e \in {"be", "le"})
        => (last.ok /\ last.num = input.n /\ st.size = 0)

\* C2: length-prefixed round trip.  For every buffer B, read() with the size
\* omitted on a Stream over B.prefixSize() returns a buffer equal to B, having
\* advanced by the prefix bytes plus length(B), and leaves remaining length 0.
C2_PrefixedRoundTrip ==
    (last.op = "read" /\ ~Explicit /\ input.kind = "prefix" /\ input.e = NoEndian)
        => /\ last.ok
           /\ chunk # 0
           /\ heap[chunk] = input.bytes
           /\ last.preSize - st.size = PrefixLen(Head(last.pre)) + Len(input.bytes)
           /\ st.size = 0

\* C3: varint wire format.  Buff.varInt(value, e) is the single byte value below
\* 0xFD; 0xFD and the 2-byte integer below 0x10000; 0xFE and the 4-byte integer
\* below 0x100000000; 0xFF and the 8-byte integer below 2^64, the integer in
\* endianness e (default big-endian); from 2^64 on it fails with ValueTooLarge
\* and returns no bytes.
C3_VarIntWireFormat ==
    (last.op = "varInt") =>
        LET n == input.n
            e == input.e
            wire == heap[buf]
        IN  IF NumLt(n, <<MarkerFD>>)
            THEN last.ok /\ wire = <<IntOf(n)>>
            ELSE IF NumLt(n, Pow(2))
            THEN last.ok /\ wire = <<MarkerFD>> \o FixedWidth(n, 2, e)
            ELSE IF NumLt(n, Pow(4))
            THEN last.ok /\ wire = <<MarkerFE>> \o FixedWidth(n, 4, e)
            ELSE IF NumLt(n, Pow(8))
            THEN last.ok /\ wire = <<MarkerFF>> \o FixedWidth(n, 8, e)
            ELSE ~last.ok /\ last.err = "ValueTooLarge" /\ wire = last.preBuf

\* C4: bounds.  In every reader state peek(size) and read(size) fail with
\* SizeExceeded when size exceeds the remaining length, and otherwise succeed
\* and return exactly size bytes (size 0 on a drained reader included).
C4_Bounds ==
    (last.op \in {"peek", "read"} /\ Explicit) =>
        IF IntOf(last.arg) > Len(last.pre)
        THEN ~last.ok /\ last.err = "SizeExceeded"
        ELSE last.ok /\ chunk # 0 /\ Len(heap[chunk]) = IntOf(last.arg)

\* a read fails on a partially drained reader
C4_Witness ==
    /\ last.op = "read"
    /\ Explicit
    /\ ~last.ok
    /\ Len(last.pre) > 0
    /\ Len(last.pre) < Len(heap[buf])

\* C5: reader partitioning.  read(s1), ..., read(sk) with sizes summing to the
\* length of B never fail, the chunks in order concatenate to B, and the
\* remaining length is 0 after the last.  (part.active: every call since the
\* Stream was made is a read(size), the sizes so far summing to at most the
\* length of B.)
C5_Partition ==
    part.active =>
        /\ ~part.failed
        /\ Len(part.got) = part.sum
        /\ part.got \o heap[st.data] = part.orig
        /\ (part.sum = Len(part.orig) => st.size = 0 /\ part.got = part.orig)

\* three bytes were read in at least two reads, the last of one byte
C5_Witness ==
    /\ part.active
    /\ part.sum = Len(part.orig)
    /\ Len(part.orig) >= 3
    /\ last.op = "read"
    /\ last.arg = Number(1)

\* C6: reader invariant.  After any calls of peek, read and readSize, failed
\* or not, size is the length of data; no call increases the remaining length;
\* a successful read(size) decreases it by exactly size, the bytes returned.
C6_ReaderInvariant ==
    /\ st.size = Len(heap[st.data])
    /\ (last.op \in {"peek", "read", "readSize"} => st.size <= last.preSize)
    /\ (last.op = "read" /\ Explicit /\ last.ok) =>
           /\ st.size = last.preSize - IntOf(last.arg)
           /\ Len(heap[chunk]) = IntOf(last.arg)

\* a read took some of the bytes and left some
C6_Witness ==
    /\ last.op = "read"
    /\ Explicit
    /\ last.ok
    /\ IntOf(last.arg) > 0
    /\ st.size > 0

\* C7: peek is non-destructive.  A peek, failed or not, leaves the remaining
\* bytes and length as they were; a successful peek(size) returns a new buffer
\* holding the first size remaining bytes, which are the bytes a read(size)
\* in that state returns.
C7_PeekNonDestructive ==
    /\ (last.op = "peek") =>
           /\ heap[st.data] = last.pre
           /\ st.size = last.preSize
           /\ last.ok => /\ chunk \notin {0, buf, st.data}
                         /\ heap[chunk] = SubSeq(last.pre, 1, IntOf(last.arg))
    /\ (last.op = "read" /\ Explicit /\ last.ok) =>
           heap[chunk] = SubSeq(last.pre, 1, IntOf(last.arg))

\* a peek returned some, not all, of the remaining bytes
C7_Witness ==
    /\ last.op = "peek"
    /\ last.ok
    /\ IntOf(last.arg) > 0
    /\ IntOf(last.arg) < st.size

\* C8: reader and buffer are independent.  The Stream holds a copy of the
\* bytes of the Buff it was made from: no peek, read or readSize changes the
\* Buff, no write on the Buff changes the reader's bytes, and no write on a
\* returned chunk changes the reader (or the Buff).
C8_Independence ==
    /\ st.data # buf
    /\ chunk \notin {buf, st.data}
    /\ (last.op = "stream" => heap[st.data] = heap[buf])
    /\ (last.op \in {"peek", "read", "readSize"} => heap[buf] = last.preBuf)
    /\ (last.op = "write" => heap[st.data] = last.pre)
    /\ (last.op = "writeChunk" => heap[st.data] = last.pre /\ heap[buf] = last.preBuf)

\* a write changed the Buff while its reader had bytes left
C8_Witness ==
    /\ last.op = "write"
    /\ last.ok
    /\ heap[buf] # last.preBuf
    /\ st.size > 0

\* C9: write keeps the length.  write(bytes, offset) with offset + length(bytes)
\* <= length(receiver) overwrites exactly [offset, offset + length(bytes)) and
\* leaves the other bytes (offset 0 when omitted); otherwise it fails with
\* OffsetOverflow and leaves every byte; the length never changes.
C9_Write ==
    (last.op = "write") =>
        LET off == IF last.off = NoOffset THEN 0 ELSE last.off
            n   == Len(last.src)
            now == heap[buf]
        IN  /\ Len(now) = Len(last.preBuf)
            /\ IF off + n <= Len(last.preBuf)
               THEN /\ last.ok
                    /\ \A i \in 1 .. Len(now) :
                           now[i] = IF i > off /\ i <= off + n
                                    THEN last.src[i - off]
                                    ELSE last.preBuf[i]
               ELSE /\ ~last.ok
                    /\ last.err = "OffsetOverflow"
                    /\ now = last.preBuf

\* the second write, at an offset, changed the Buff
C9_Witness ==
    /\ last.op = "write"
    /\ last.ok
    /\ nwrites = 2
    /\ last.off > 0
    /\ heap[buf] # last.preBuf

\* C10 as stated: a failed read(size), read() or readSize() leaves the reader's
\* remaining bytes and length as before the call.
C10_FailedReadsAtomic ==
    (last.op \in {"read", "readSize"} /\ ~last.ok)
        => (heap[st.data] = last.pre /\ st.size = last.preSize)

\* C10 amended: a failed read(size) leaves the reader as it was.  A failed
\* readSize() or read() leaves size the length of data and has consumed
\* nothing of an empty reader, otherwise the marker byte, and all bytes of the
\* prefix where read() decoded it before failing.
C10_FailedReadEffect ==
    (last.op \in {"read", "readSize"} /\ ~last.ok) =>
        /\ st.size = Len(heap[st.data])
        /\ last.err = "SizeExceeded"
        /\ heap[st.data] =
              IF (last.op = "read" /\ Explicit) \/ last.pre = << >>
              THEN last.pre
              ELSE IF last.op = "readSize" \/ PrefixLen(Head(last.pre)) > Len(last.pre)
              THEN Tail(last.pre)
              ELSE SubSeq(last.pre, PrefixLen(Head(last.pre)) + 1, Len(last.pre))

\* read() failed after it consumed a prefix of more than one byte
C10_Witness ==
    /\ last.op = "read"
    /\ ~Explicit
    /\ ~last.ok
    /\ last.preSize - st.size > 1

====
